---- MODULE Spec2Model ----
(***************************************************************************)
(* A model of the workz RPC handlers: the activity log of a ToDo           *)
(* (api/activity.py), reference resolution and the task listing            *)
(* (api/references.py).  Text is a sequence of one-character strings, so   *)
(* that strip(), str() and the "type:id" keys are computed, not assumed.   *)
(***************************************************************************)
EXTENDS Integers, Sequences, FiniteSets, TLC

VARIABLES
    versions,   \* the Version table: sequence of records, in insertion order
    comments,   \* the Comment table: sequence of records, in insertion order
    now,        \* the wall clock, an index into Times
    history,    \* the last activity call (list_history / add_comment) and its result
    todos,      \* the ToDo table
    docs,       \* the referenced documents: records [doctype, name, title]
    refcall,    \* the last reference-resolution call and its result
    listing,    \* the last results of get_user_todos and get_user_todos_alternative
    context     \* the last get_context call and the page context it filled

vars == <<versions, comments, now, history, todos, docs, refcall, listing, context>>

\* Bounds of the model
MaxRecords == 3      \* Version and Comment records in the store, together
MaxComments == 1     \* comments that add_comment may add to a store
MaxRefs == 2         \* references in one resolve_references request
MaxFew == 1          \* tasks of one kind in a store with few tasks
MaxOver == 1         \* tasks of one kind beyond the limit of one query
MaxEntries == 2      \* entries in the "changed" list of one change-log payload
MaxPieces == 4       \* fragments a string of the boot payload is made of

(***************************************************************************)
(* Text                                                                    *)
(***************************************************************************)

\* The characters the model uses, in code-point order (tab 9, space 32,
\* '-' 45, '.' 46, digits 48..57, ':' 58, letters).
Alphabet == <<"\t", " ", "-", ".", "0", "1", "2", "3", "4", "5", "6", "7", "8", "9",
              ":", "A", "P", "T", "a", "b">>

Code(c) == CHOOSE i \in 1..Len(Alphabet) : Alphabet[i] = c

Whitespace == {"\t", " "}

RECURSIVE LStrip(_)
LStrip(s) == IF s # <<>> /\ Head(s) \in Whitespace THEN LStrip(Tail(s)) ELSE s

RECURSIVE RStrip(_)
RStrip(s) ==
    IF s # <<>> /\ s[Len(s)] \in Whitespace THEN RStrip(SubSeq(s, 1, Len(s) - 1)) ELSE s

\* strip() that forgets the trailing whitespace
StripLeftOnly(s) == LStrip(s)

\* str.strip(): leading and trailing whitespace removed
Strip(s) == RStrip(LStrip(s))

\* Python's < on str: lexicographic by code point, a proper prefix is smaller
RECURSIVE StrLess(_, _)
StrLess(a, b) ==
    IF b = <<>> THEN FALSE
    ELSE IF a = <<>> THEN TRUE
    ELSE IF Head(a) # Head(b) THEN Code(Head(a)) < Code(Head(b))
    ELSE StrLess(Tail(a), Tail(b))

\* None, as a value distinct from every text
None == <<"<None>">>

Digit(n) == Alphabet[5 + n]

RECURSIVE Pad(_, _)
\* n in decimal, zero-padded to w digits
Pad(n, w) == IF w = 0 THEN <<>> ELSE Pad(n \div 10, w - 1) \o <<Digit(n % 10)>>

(***************************************************************************)
(* Timestamps                                                              *)
(***************************************************************************)

DT(Y, M, D, h, m, s, us) == [Y |-> Y, M |-> M, D |-> D, h |-> h, m |-> m, s |-> s, us |-> us]

\* The clock's values, in increasing order
Times == << DT(2025, 8, 8, 9, 59, 59, 0),
            DT(2025, 8, 8, 9, 59, 59, 500),
            DT(2025, 10, 1, 0, 0, 0, 0) >>

DtTuple(t) == <<t.Y, t.M, t.D, t.h, t.m, t.s, t.us>>

RECURSIVE TupleLess(_, _)
TupleLess(a, b) ==
    IF a = <<>> THEN FALSE
    ELSE IF Head(a) # Head(b) THEN Head(a) < Head(b)
    ELSE TupleLess(Tail(a), Tail(b))

\* t1 is an earlier instant than t2
DtLess(t1, t2) == TupleLess(DtTuple(t1), DtTuple(t2))

\* str(datetime): "YYYY-MM-DD HH:MM:SS", then ".ffffff" unless the microseconds are 0
StrDt(t) ==
    Pad(t.Y, 4) \o <<"-">> \o Pad(t.M, 2) \o <<"-">> \o Pad(t.D, 2) \o <<" ">>
    \o Pad(t.h, 2) \o <<":">> \o Pad(t.m, 2) \o <<":">> \o Pad(t.s, 2)
    \o (IF t.us = 0 THEN <<>> ELSE <<".">> \o Pad(t.us, 6))

(***************************************************************************)
(* The stored payload of a Version record (its "data" column), by the      *)
(* shape json.loads gives it.                                              *)
(*   form    "empty"   data is None or ""                                  *)
(*           "invalid" data is not JSON                                    *)
(*           "atom"    a JSON number, true, false or null                  *)
(*           "str"     a JSON string, "arr" a JSON array                   *)
(*           "obj"     a JSON object                                       *)
(*   words   for "str" and "arr": which of changed/added/removed the value *)
(*           contains (Python's `in`)                                      *)
(*   changed for "obj": the value under "changed": "absent" (no key, or a  *)
(*           falsy value), "list", "dict" or "other" (a truthy scalar)     *)
(*   entries the elements of a "list", the keys of a "dict"                *)
(*   added, removed  for "obj": the key is present with a truthy value     *)
(* An element of the changed list is [shape, len, field, isStr]: shape     *)
(* "seq" (a list or a string), "map" (an object) or "atom"; len its        *)
(* length; field its first element; isStr whether that element is a str.   *)
(***************************************************************************)
Change(shape, len, field, isStr) ==
    [shape |-> shape, len |-> len, field |-> field, isStr |-> isStr]

Data(form, words, changed, entries, added, removed) ==
    [form |-> form, words |-> words, changed |-> changed, entries |-> entries,
     added |-> added, removed |-> removed]

ObjData(changed, entries, added, removed) == Data("obj", {}, changed, entries, added, removed)

\* field_name.replace("_", " ").title() and the special cases before it:
\* the leading text of the description format_field_change returns
FieldLabel(field_name) ==
    CASE field_name = "status" -> "Status"
      [] field_name = "priority" -> "Priority"
      [] field_name = "allocated_to" -> "Assigned to"
      [] field_name = "description" -> "Subject updated"
      [] field_name = "reference_name" -> "Project"
      [] field_name = "reference_type" -> "Reference Type"
      [] field_name = "date" -> "Date"
      [] field_name = "assigned_by" -> "Assigned By"
      [] OTHER -> field_name

\* format_field_change(field_name, old, new): "ok" with the description, or
\* "raise": a field name that is no str has no replace() (AttributeError)
format_field_change(field_name, isStr) ==
    IF isStr THEN [st |-> "ok", desc |-> FieldLabel(field_name)]
    ELSE [st |-> "raise", desc |-> ""]

\* One pass of the loop over version_data["changed"] (a list).  acc is
\* [st, fields, allStr, type]; st "skip" is an exception the handler
\* catches (TypeError, KeyError), "raise" one it does not.
ChangeStep(acc, change) ==
    IF acc.st # "ok" THEN acc
    ELSE IF change.shape = "atom" THEN [acc EXCEPT !.st = "skip"]       \* len(): TypeError
    ELSE IF change.len >= 3 THEN
        IF change.shape = "map" THEN [acc EXCEPT !.st = "skip"]         \* change[0]: KeyError
        ELSE LET d == format_field_change(change.field, change.isStr) IN
             IF d.st = "raise" THEN [acc EXCEPT !.st = "raise"]
             ELSE [acc EXCEPT !.fields = Append(@, d.desc),
                              !.type = IF change.field = "allocated_to"
                                       THEN "assignment" ELSE @]
    ELSE IF change.len > 0 THEN
        IF change.shape = "map" THEN [acc EXCEPT !.st = "skip"]         \* change[0]: KeyError
        ELSE [acc EXCEPT !.fields = Append(@, change.field),
                         !.allStr = @ /\ change.isStr]
    ELSE acc

RECURSIVE ChangeLoop(_, _)
ChangeLoop(acc, entries) ==
    IF entries = <<>> THEN acc ELSE ChangeLoop(ChangeStep(acc, Head(entries)), Tail(entries))

\* the loop body without the reset of change_type for a created document
ProcessVersionKeepsType(data) ==
    LET start == [st |-> "ok", fields |-> <<>>, allStr |-> TRUE, type |-> "status_change"]
        item(type, fields) == [st |-> "item", type |-> type, fields |-> fields]
        skip == [st |-> "skip", type |-> "", fields |-> <<>>]
    IN
    CASE data.form \in {"invalid", "atom"} -> skip
      [] data.form = "empty" -> item("status_change", <<"ToDo updated">>)
      [] data.form \in {"str", "arr"} ->
            IF data.words # {} THEN skip ELSE item("status_change", <<"ToDo updated">>)
      [] OTHER ->
            LET acc == CASE data.changed = "list" -> ChangeLoop(start, data.entries)
                         [] data.changed = "dict" ->
                                [start EXCEPT !.fields = [i \in 1..Len(data.entries) |->
                                                              data.entries[i].field]]
                         [] OTHER -> start
            IN
            IF acc.st = "raise" THEN [st |-> "raise", type |-> "", fields |-> <<>>]
            ELSE IF acc.st = "skip" THEN skip
            ELSE IF data.added THEN item(acc.type, <<"ToDo created">>)
            ELSE IF acc.fields = <<>> THEN
                 item(acc.type, IF data.removed THEN <<"Fields removed">> ELSE <<"ToDo updated">>)
            ELSE IF ~acc.allStr THEN skip
            ELSE item(acc.type, acc.fields)

\* The body of the loop over versions, for one record's data: st "item"
\* (an activity item is appended), "skip" (caught and logged) or "raise".
ProcessVersion(data) ==
    LET start == [st |-> "ok", fields |-> <<>>, allStr |-> TRUE, type |-> "status_change"]
        item(type, fields) == [st |-> "item", type |-> type, fields |-> fields]
        skip == [st |-> "skip", type |-> "", fields |-> <<>>]
    IN
    CASE data.form = "invalid" -> skip                                   \* JSONDecodeError
      [] data.form = "atom" -> skip                                      \* `in`: TypeError
      [] data.form = "empty" -> item("status_change", <<"ToDo updated">>)
      [] data.form \in {"str", "arr"} ->
            IF data.words # {} THEN skip                                 \* version_data["..."]: TypeError
            ELSE item("status_change", <<"ToDo updated">>)
      [] OTHER ->
            LET acc == CASE data.changed = "list" -> ChangeLoop(start, data.entries)
                         [] data.changed = "dict" ->
                                [start EXCEPT !.fields = [i \in 1..Len(data.entries) |->
                                                              data.entries[i].field]]
                         [] OTHER -> start
            IN
            IF acc.st = "raise" THEN [st |-> "raise", type |-> "", fields |-> <<>>]
            ELSE IF acc.st = "skip" THEN skip
            ELSE IF data.added THEN item("status_change", <<"ToDo created">>)
            ELSE IF acc.fields = <<>> THEN
                 item(acc.type, IF data.removed THEN <<"Fields removed">> ELSE <<"ToDo updated">>)
            ELSE IF ~acc.allStr THEN skip                                \* "; ".join: TypeError
            ELSE item(acc.type, acc.fields)

(***************************************************************************)
(* The Version and Comment tables and the queries on them                  *)
(***************************************************************************)

TodoIds == {"T1", "T2"}

\* frappe.session.user
CurrentUser == "alice"

Reverse(s) == [i \in 1..Len(s) |-> s[Len(s) + 1 - i]]

\* a query that forgets its filter
SelectUnfiltered(table, f, v) == table

RECURSIVE SelectSeq2(_, _, _)
\* the records of table whose field f equals v, in table order
SelectSeq2(table, f, v) ==
    IF table = <<>> THEN <<>>
    ELSE (IF Head(table)[f] = v THEN <<Head(table)>> ELSE <<>>) \o SelectSeq2(Tail(table), f, v)

\* The sort keys: a row's creation datetime (the database's ORDER BY), an
\* item's created_at text (Python's sort in list_history)
KeyLess(by, r1, r2) ==
    CASE by = "creation" -> DtLess(r1.creation, r2.creation)
      [] by = "created_at" -> StrLess(r1.created_at, r2.created_at)
      [] OTHER -> r1.modified < r2.modified

\* x placed after every element of the descending sequence s that is not
\* smaller than x (a stable insertion)
RECURSIVE InsertDesc(_, _, _)
InsertDesc(s, x, by) ==
    IF s = <<>> THEN <<x>>
    ELSE IF KeyLess(by, Head(s), x) THEN <<x>> \o s
    ELSE <<Head(s)>> \o InsertDesc(Tail(s), x, by)

RECURSIVE SortDesc(_, _, _)
\* s sorted into descending order, equal elements keeping their order:
\* list.sort(key=..., reverse=True).  done is the sorted prefix.
SortDesc(done, s, by) ==
    IF s = <<>> THEN done ELSE SortDesc(InsertDesc(done, Head(s), by), Tail(s), by)

\* frappe.get_all(table, filters={f: v}, order_by="creation desc"): the
\* database leaves the order of rows with equal creation open; tieRev
\* chooses between insertion order and its reverse.
GetAllByCreationDesc(table, f, v, tieRev) ==
    LET rows == SelectSeq2(table, f, v) IN
    SortDesc(<<>>, IF tieRev THEN Reverse(rows) ELSE rows, "creation")

\* The activity item of a Version record (activity.py 130-140)
VersionItem(version, pv) ==
    [id |-> version.name, type |-> pv.type, author |-> version.owner,
     content |-> pv.fields, created_at |-> StrDt(version.creation)]

\* The activity item of a Comment record (activity.py 160-167, 206-213)
CommentItem(comment) ==
    [id |-> comment.name, type |-> "comment", author |-> comment.owner,
     content |-> comment.content, created_at |-> StrDt(comment.creation)]

\* The loop over versions: acc is [st, items]; an exception the handler
\* does not catch ends the loop with st "raise".
RECURSIVE VersionLoop(_, _)
VersionLoop(acc, rows) ==
    IF rows = <<>> \/ acc.st = "raise" THEN acc
    ELSE LET pv == ProcessVersion(Head(rows).data) IN
         VersionLoop(
            CASE pv.st = "item" -> [acc EXCEPT !.items = Append(@, VersionItem(Head(rows), pv))]
              [] pv.st = "skip" -> acc
              [] OTHER -> [st |-> "raise", items |-> <<>>],
            Tail(rows))

\* list_history without its final sort
SortItemsOmitted(items) == items

\* items.sort(key=lambda x: x["created_at"], reverse=True)
SortItems(items) == SortDesc(<<>>, items, "created_at")

HistoryCall(op, todo_id, content, permitted, error, items) ==
    [op |-> op, todo_id |-> todo_id, content |-> content, permitted |-> permitted,
     error |-> error, items |-> items]

\* list_history(todo_id): the returned list, or the error raised
list_history(todo_id, permitted, tieRev) ==
    IF todo_id = "" THEN [error |-> "ValidationError", items |-> <<>>]
    ELSE IF ~permitted THEN [error |-> "NotPermitted", items |-> <<>>]
    ELSE LET vrows == GetAllByCreationDesc(versions, "docname", todo_id, tieRev)
             loop == VersionLoop([st |-> "ok", items |-> <<>>], vrows)
             crows == GetAllByCreationDesc(comments, "reference_name", todo_id, tieRev)
             citems == [i \in 1..Len(crows) |-> CommentItem(crows[i])]
         IN IF loop.st = "raise" THEN [error |-> "AttributeError", items |-> <<>>]
            ELSE [error |-> "", items |-> SortItems(loop.items \o citems)]

ListHistory ==
    \E todo_id \in TodoIds \cup {""}, permitted \in BOOLEAN, tieRev \in BOOLEAN :
        LET r == list_history(todo_id, permitted, tieRev) IN
        /\ history' = HistoryCall("list_history", todo_id, None, permitted, r.error, r.items)
        /\ UNCHANGED <<versions, comments, now, todos, docs, refcall, listing, context>>

\* The contents a caller passes to add_comment: None, and texts with and
\* without surrounding whitespace
Contents == {None, <<>>, <<" ", "\t">>, <<"a">>, <<" ", "a", " ", "b", "\t">>}

\* add_comment inserting its record before it validates the call
AddCommentInsertFirst ==
    \E todo_id \in TodoIds \cup {""}, content \in Contents, permitted \in BOOLEAN,
       user \in {CurrentUser} :
        LET text == Strip(IF content = None THEN <<>> ELSE content)
            comment == [name |-> [tbl |-> "Comment", n |-> Len(comments) + 1],
                        owner |-> user, creation |-> Times[now],
                        reference_name |-> todo_id, content |-> text]
            error == IF todo_id = "" THEN "ValidationError"
                     ELSE IF text = <<>> THEN "ValidationError"
                     ELSE IF ~permitted THEN "NotPermitted"
                     ELSE ""
        IN
        /\ Len(comments) < MaxComments
        /\ comments' = Append(comments, comment)
        /\ history' = HistoryCall("add_comment", todo_id, content, permitted, error,
                                  IF error = "" THEN <<CommentItem(comment)>> ELSE <<>>)
        /\ UNCHANGED <<versions, now, todos, docs, refcall, listing, context>>

\* add_comment(todo_id, content)
AddComment ==
    \E todo_id \in TodoIds \cup {""}, content \in Contents, permitted \in BOOLEAN,
       user \in {CurrentUser} :
        LET text == Strip(IF content = None THEN <<>> ELSE content)
            comment == [name |-> [tbl |-> "Comment", n |-> Len(comments) + 1],
                        owner |-> user, creation |-> Times[now],
                        reference_name |-> todo_id, content |-> text]
            error == IF todo_id = "" THEN "ValidationError"
                     ELSE IF text = <<>> THEN "ValidationError"
                     ELSE IF ~permitted THEN "NotPermitted"
                     ELSE ""
        IN
        /\ error = "" => Len(comments) < MaxComments
        /\ comments' = IF error = "" THEN Append(comments, comment) ELSE comments
        /\ history' = HistoryCall("add_comment", todo_id, content, permitted, error,
                                  IF error = "" THEN <<CommentItem(comment)>> ELSE <<>>)
        /\ UNCHANGED <<versions, now, todos, docs, refcall, listing, context>>

\* The wall clock advances
Tick ==
    /\ now < Len(Times)
    /\ now' = now + 1
    /\ UNCHANGED <<versions, comments, history, todos, docs, refcall, listing, context>>

(***************************************************************************)
(* The activity log: initial stores and specifications                     *)
(***************************************************************************)

\* Payloads found in the Version table: a status change, text that is not
\* JSON, and a change whose field name is a number
StoredData ==
    { ObjData("list", <<Change("seq", 3, "status", TRUE)>>, FALSE, FALSE),
      Data("invalid", {}, "absent", <<>>, FALSE, FALSE),
      ObjData("list", <<Change("seq", 3, "7", FALSE)>>, FALSE, FALSE) }

VersionRows ==
    [docname : {"T1"}, creation : 1..Len(Times), data : StoredData]
    \cup [docname : {"T2"}, creation : 1..Len(Times),
          data : {ObjData("list", <<Change("seq", 3, "status", TRUE)>>, FALSE, FALSE)}]

CommentRows == [reference_name : TodoIds, creation : 1..Len(Times), content : {<<"a">>}]

\* Rows are inserted as time passes: creation never decreases along a table
Chronological(rows) == \A i \in 1..(Len(rows) - 1) : rows[i].creation <= rows[i + 1].creation

VersionTables(max) ==
    { [i \in 1..Len(rows) |->
          [name |-> [tbl |-> "Version", n |-> i], owner |-> "bob",
           creation |-> Times[rows[i].creation], docname |-> rows[i].docname,
           data |-> rows[i].data]] :
      rows \in { r \in UNION { [1..n -> VersionRows] : n \in 0..max } : Chronological(r) } }

CommentTables(max) ==
    { [i \in 1..Len(rows) |->
          [name |-> [tbl |-> "Comment", n |-> i], owner |-> "alice",
           creation |-> Times[rows[i].creation],
           reference_name |-> rows[i].reference_name, content |-> rows[i].content]] :
      rows \in { r \in UNION { [1..n -> CommentRows] : n \in 0..max } : Chronological(r) } }

NoCall == HistoryCall("none", "", None, FALSE, "", <<>>)

\* The parts of the state the activity handlers never read
RestIdle ==
    /\ todos = <<>>
    /\ docs = {}
    /\ refcall = [op |-> "none"]
    /\ listing = [op |-> "none"]
    /\ context = [op |-> "none"]

\* Reading the activity log of a store that holds change-log and comment records
InitHistory ==
    /\ versions \in VersionTables(MaxRecords)
    /\ comments \in CommentTables(MaxRecords - Len(versions))
    /\ now = Len(Times)
    /\ history = NoCall
    /\ RestIdle

NextHistory == ListHistory

SpecHistory == InitHistory /\ [][NextHistory]_vars

\* The Version tables a store starts with when comments are added to it
SeedVersionTables == { t \in VersionTables(1) : \A i \in 1..Len(t) : t[i].creation = Times[1] }

\* Commenting on and reading a store that starts without comments
InitComment ==
    /\ versions \in SeedVersionTables
    /\ comments = <<>>
    /\ now = 1
    /\ history = NoCall
    /\ RestIdle

NextComment ==
    \/ ListHistory
    \/ AddComment
    \/ Tick

SpecComment == InitComment /\ [][NextComment]_vars

(***************************************************************************)
(* Properties of the activity log                                          *)
(***************************************************************************)

\* The stored record an activity item was made from
RecordOf(id) == IF id.tbl = "Version" THEN versions[id.n] ELSE comments[id.n]

ListReturned == history.op = "list_history" /\ history.error = ""

\* C1: the list list_history returns is ordered by timestamp descending:
\* of two adjacent items the first was not created before the second,
\* whatever the mix of change-log and comment items.
C1_HistoryNewestFirst ==
    ListReturned =>
        \A i \in 1..(Len(history.items) - 1) :
            ~DtLess(RecordOf(history.items[i].id).creation,
                    RecordOf(history.items[i + 1].id).creation)

\* C1 witness: a comment returned between two change-log items, the three
\* created at three different instants
C1_Witness ==
    /\ ListReturned
    /\ Len(history.items) = 3
    /\ history.items[1].type = "status_change"
    /\ history.items[2].type = "comment"
    /\ history.items[3].type = "status_change"
    /\ DtLess(RecordOf(history.items[3].id).creation, RecordOf(history.items[2].id).creation)
    /\ DtLess(RecordOf(history.items[2].id).creation, RecordOf(history.items[1].id).creation)

VersionsOf(todo_id) == { i \in 1..Len(versions) : versions[i].docname = todo_id }

CommentsOf(todo_id) == { i \in 1..Len(comments) : comments[i].reference_name = todo_id }

ValidListCall == history.op = "list_history" /\ history.todo_id # "" /\ history.permitted

ItemIds(items) == { items[i].id : i \in 1..Len(items) }

Blank(content) == content = None \/ \A i \in 1..Len(content) : content[i] \in Whitespace

\* t is text with the whitespace before its first and after its last
\* non-whitespace character removed
IsTrimOf(t, text) ==
    \E i, j \in 1..Len(text) :
        /\ t = SubSeq(text, i, j)
        /\ text[i] \notin Whitespace /\ text[j] \notin Whitespace
        /\ \A k \in 1..Len(text) : (k < i \/ k > j) => text[k] \in Whitespace

\* C3: add_comment with empty, missing or whitespace-only content fails
\* with a validation error; with non-empty content, from a caller who may
\* read the task, the returned item's content is the trimmed input.
C3_AddCommentContent ==
    history.op = "add_comment" =>
        /\ Blank(history.content) => history.error = "ValidationError"
        /\ (~Blank(history.content) /\ history.todo_id # "" /\ history.permitted) =>
              /\ history.error = ""
              /\ Len(history.items) = 1
              /\ IsTrimOf(history.items[1].content, history.content)

\* C3 witness: a comment returned whose content differs from the input by
\* the whitespace that was trimmed
C3_Witness ==
    /\ history.op = "add_comment"
    /\ history.error = ""
    /\ history.items[1].content # history.content
    /\ history.items[1].content = <<"a", " ", "b">>

(***************************************************************************)
(* Reference resolution (api/references.py)                                *)
(***************************************************************************)

\* Document types, as text: "P" stands for Project, whose column "t" is its
\* configured title field, "N" for Note, which has a column "t" and no
\* configured title field, "T" for ToDo itself.
Project == <<"P">>
Note == <<"N">>
ToDo == <<"T">>

\* meta.title_field of a type; <<>> when none is configured
MetaTitleField(doctype) == IF doctype = Project THEN <<"t">> ELSE <<>>

NameField == <<"n">>

\* a title field that defaults to the column "t"
TitleFieldDefaultsToColumn(doctype) == <<"t">>

\* meta.title_field or "name"
TitleFieldOf(doctype) ==
    IF MetaTitleField(doctype) = <<>> THEN NameField ELSE MetaTitleField(doctype)

\* Python's truth value of a text or None
Truthy(text) == text # None /\ text # <<>>

\* f"{doctype}:{name}"
RefKey(doctype, name) == doctype \o <<":">> \o name

\* the query without its filter on the user
UserTodoRefsOfAnyUser(field) == SelectSeq(todos, LAMBDA t : t.reference_type # ToDo)

\* The ToDo rows frappe.get_all returns for
\* filters={"reference_type": ["!=", "ToDo"], field: current_user}
UserTodoRefs(field) ==
    SelectSeq(todos, LAMBDA t : t.reference_type # ToDo /\ t[field] = CurrentUser)

\* valid_references: the keys of the references the caller's tasks carry
ValidReferences ==
    LET user_todos == UserTodoRefs("owner") \o UserTodoRefs("allocated_to") IN
    { RefKey(user_todos[i].reference_type, user_todos[i].reference_name) :
        i \in { j \in 1..Len(user_todos) :
                  Truthy(user_todos[j].reference_type) /\ Truthy(user_todos[j].reference_name) } }

\* a permission check that is never negative
StatusOfIgnoringDenied(status, doctype) ==
    IF doctype \in DOMAIN status /\ status[doctype] # "denied" THEN status[doctype] ELSE "ok"

\* What the framework answers for a type during one request: "ok",
\* "denied" (has_permission is false) or "fails" (get_meta or the fetch raises)
StatusOf(status, doctype) == IF doctype \in DOMAIN status THEN status[doctype] ELSE "ok"

\* The references that pass the filters of the grouping loop, in order
RECURSIVE GroupLoop(_, _)
GroupLoop(references, status) ==
    IF references = <<>> THEN <<>>
    ELSE LET ref == Head(references)
             keep == /\ ref.wellformed
                     /\ RefKey(ref.doctype, ref.name) \in ValidReferences
                     /\ StatusOf(status, ref.doctype) # "denied"
         IN (IF keep THEN <<ref>> ELSE <<>>) \o GroupLoop(Tail(references), status)

\* doc.get(field), for the two columns fetched
FieldValue(doc, field) == IF field = NameField THEN doc.name ELSE doc.title

\* The display value of a fetched document (references.py 117-120)
DisplayValue(doctype, doc) ==
    IF TitleFieldOf(doctype) # NameField /\ Truthy(FieldValue(doc, TitleFieldOf(doctype)))
    THEN Strip(FieldValue(doc, TitleFieldOf(doctype)))
    ELSE doc.name

\* a lookup that adds the fallback entries also when it succeeds
ResolveDoctypeAlwaysFallback(doctype, names, status) ==
    { [key |-> RefKey(doctype, n), value |-> n] :
        n \in { m \in names : \A d \in docs : ~(d.doctype = doctype /\ d.name = m) } }
    \cup { [key |-> RefKey(doctype, d.name), value |-> DisplayValue(doctype, d)] :
             d \in { x \in docs : x.doctype = doctype /\ x.name \in names } }

\* The entries one type adds to the mapping: those of the documents found,
\* or, when the lookup raises, the raw name of every name asked for
ResolveDoctype(doctype, names, status) ==
    IF StatusOf(status, doctype) = "fails"
    THEN { [key |-> RefKey(doctype, n), value |-> n] : n \in names }
    ELSE { [key |-> RefKey(doctype, d.name), value |-> DisplayValue(doctype, d)] :
             d \in { x \in docs : x.doctype = doctype /\ x.name \in names } }

\* resolve_references(references), for a list
resolve_references(references, status) ==
    IF references = <<>> THEN {}
    ELSE LET kept == GroupLoop(references, status)
             by_doctype == { kept[i].doctype : i \in 1..Len(kept) }
             names(doctype) == { kept[i].name : i \in { j \in 1..Len(kept) : kept[j].doctype = doctype } }
         IN UNION { ResolveDoctype(doctype, names(doctype), status) : doctype \in by_doctype }

\* resolve_single_reference(doctype, name)
resolve_single_reference(doctype, name, status) ==
    IF ~Truthy(doctype) \/ ~Truthy(name) THEN (IF Truthy(name) THEN name ELSE <<>>)
    ELSE IF StatusOf(status, doctype) = "denied" THEN name
    ELSE IF StatusOf(status, doctype) = "fails" THEN name
    ELSE IF TitleFieldOf(doctype) = NameField THEN name
    ELSE LET found == { d \in docs : d.doctype = doctype /\ d.name = name }
             doc == IF found = {} THEN None
                    ELSE FieldValue(CHOOSE d \in found : TRUE, TitleFieldOf(doctype))
         IN IF Truthy(doc) THEN Strip(doc) ELSE name

RefCall(op, references, doctype, name, status, resolved, value) ==
    [op |-> op, references |-> references, doctype |-> doctype, name |-> name,
     status |-> status, resolved |-> resolved, value |-> value]

NoRefCall == RefCall("none", <<>>, None, None, <<>>, {}, None)

Ref(doctype, name) == [wellformed |-> TRUE, doctype |-> doctype, name |-> name]

\* An element of the list that is no dict with 'doctype' and 'name'
MalformedRef == [wellformed |-> FALSE, doctype |-> None, name |-> None]

RefInputs ==
    { Ref(Project, <<"1">>), Ref(Project, <<"2">>), Ref(Note, <<"1">>), Ref(ToDo, <<"1">>),
      MalformedRef }

Statuses == [{Project, Note} -> {"ok", "denied", "fails"}]

ResolveReferences ==
    /\ refcall.op = "none"
    /\ \E n \in 0..MaxRefs : \E references \in [1..n -> RefInputs] : \E status \in Statuses :
          refcall' = RefCall("resolve_references", references, None, None, status,
                             resolve_references(references, status), None)
    /\ UNCHANGED <<versions, comments, now, history, todos, docs, listing, context>>

ResolveSingleReference ==
    /\ refcall.op = "none"
    /\ \E doctype \in {Project, Note, <<>>}, name \in {<<"1">>, <<"2">>, <<>>, None},
          status \in Statuses :
          refcall' = RefCall("resolve_single_reference", <<>>, doctype, name, status, {},
                             resolve_single_reference(doctype, name, status))
    /\ UNCHANGED <<versions, comments, now, history, todos, docs, listing, context>>

\* The response is sent; the next request starts from the same store
RefRespond ==
    /\ refcall.op # "none"
    /\ refcall' = NoRefCall
    /\ UNCHANGED <<versions, comments, now, history, todos, docs, listing, context>>

TodoRow(name, owner, allocated_to, reference_type, reference_name, modified) ==
    [name |-> name, owner |-> owner, allocated_to |-> allocated_to,
     reference_type |-> reference_type, reference_name |-> reference_name,
     modified |-> modified]

\* Tasks a store may hold: the caller's own, one assigned to the caller, one
\* of somebody else, one that is about another task, one about nothing
RefTodoPool ==
    << TodoRow(1, "alice", "bob", Project, <<"1">>, 1),
       TodoRow(2, "bob", "alice", Note, <<"1">>, 1),
       TodoRow(3, "bob", "bob", Project, <<"2">>, 1),
       TodoRow(4, "alice", "alice", ToDo, <<"1">>, 1),
       TodoRow(5, "alice", "alice", None, None, 1) >>

RECURSIVE Pick(_, _)
\* the rows of pool whose name is in chosen, in pool order
Pick(pool, chosen) ==
    IF pool = <<>> THEN <<>>
    ELSE (IF Head(pool).name \in chosen THEN <<Head(pool)>> ELSE <<>>) \o Pick(Tail(pool), chosen)

Doc(doctype, name, title) == [doctype |-> doctype, name |-> name, title |-> title]

\* The stored title of Project 1: a plain text, one with surrounding
\* whitespace, whitespace only, empty
Titles == { <<"A">>, <<" ", "A", "\t">>, <<" ", "\t">>, <<>> }

RefDocStores ==
    { p1 \cup n1 \cup { Doc(Project, <<"2">>, <<"b">>) } :
        p1 \in { {} } \cup { { Doc(Project, <<"1">>, t) } : t \in Titles },
        n1 \in { {}, { Doc(Note, <<"1">>, <<"x">>) } } }

InitRefs ==
    /\ versions = <<>> /\ comments = <<>> /\ now = 1 /\ history = NoCall
    /\ todos \in { Pick(RefTodoPool, chosen) : chosen \in SUBSET (1..Len(RefTodoPool)) }
    /\ docs \in RefDocStores
    /\ refcall = NoRefCall
    /\ listing = [op |-> "none"]
    /\ context = [op |-> "none"]

NextRefs ==
    \/ ResolveReferences
    \/ ResolveSingleReference
    \/ RefRespond

SpecRefs == InitRefs /\ [][NextRefs]_vars

(***************************************************************************)
(* Properties of reference resolution                                      *)
(***************************************************************************)

ResolveCall == refcall.op = "resolve_references"

SingleCall == refcall.op = "resolve_single_reference"

\* The well-formed (type, id) pairs of the request
Requested ==
    { refcall.references[i] :
        i \in { j \in 1..Len(refcall.references) : refcall.references[j].wellformed } }

ResolvedKeys == { e.key : e \in refcall.resolved }

RecordExists(doctype, name) == \E d \in docs : d.doctype = doctype /\ d.name = name

\* A task the caller owns or is assigned to, not about a task, carries (doctype, name)
CarriedByOwnTask(doctype, name) ==
    \E i \in 1..Len(todos) :
        /\ todos[i].owner = CurrentUser \/ todos[i].allocated_to = CurrentUser
        /\ todos[i].reference_type # ToDo
        /\ todos[i].reference_type = doctype
        /\ todos[i].reference_name = name

\* What the framework answered for the type during the call
LookupOf(doctype) ==
    IF doctype \in DOMAIN refcall.status THEN refcall.status[doctype] ELSE "ok"

\* C4 as stated: an empty list gives an empty mapping, and a pair that
\* names no existing record has no key in the mapping, also when the
\* lookup for its type fails.
C4_Original ==
    ResolveCall =>
        /\ refcall.references = <<>> => refcall.resolved = {}
        /\ \A ref \in Requested :
              ~RecordExists(ref.doctype, ref.name) =>
                  RefKey(ref.doctype, ref.name) \notin ResolvedKeys

\* C4 amended: an empty list gives an empty mapping; a pair that names no
\* existing record has no key when the lookup for its type succeeds; when
\* that lookup fails, every requested pair of the type that one of the
\* caller's tasks carries is mapped to its raw id, the record existing or not.
C4_MissingOmittedUnlessLookupFails ==
    ResolveCall =>
        /\ refcall.references = <<>> => refcall.resolved = {}
        /\ \A e \in refcall.resolved : \E ref \in Requested : e.key = RefKey(ref.doctype, ref.name)
        /\ \A ref \in Requested :
              /\ (LookupOf(ref.doctype) # "fails" /\ ~RecordExists(ref.doctype, ref.name)) =>
                    RefKey(ref.doctype, ref.name) \notin ResolvedKeys
              /\ (LookupOf(ref.doctype) = "fails" /\ CarriedByOwnTask(ref.doctype, ref.name)) =>
                    [key |-> RefKey(ref.doctype, ref.name), value |-> ref.name] \in refcall.resolved

\* C4 witness: two pairs of the caller's tasks requested, both lookups
\* succeeding; the one whose record is missing is left out, the other resolved
C4_Witness ==
    /\ ResolveCall
    /\ \E r1, r2 \in Requested :
          /\ CarriedByOwnTask(r1.doctype, r1.name) /\ CarriedByOwnTask(r2.doctype, r2.name)
          /\ LookupOf(r1.doctype) = "ok" /\ LookupOf(r2.doctype) = "ok"
          /\ ~RecordExists(r1.doctype, r1.name)
          /\ RefKey(r1.doctype, r1.name) \notin ResolvedKeys
          /\ RefKey(r2.doctype, r2.name) \in ResolvedKeys

\* C5: every key of the mapping is the "type:id" of a reference that a task
\* the caller owns or is assigned to carries (the type not being the task
\* type); a requested pair outside that set has no key, whatever the
\* caller's permission on its type.
C5_OnlyOwnTaskReferences ==
    ResolveCall =>
        /\ \A e \in refcall.resolved :
              \E i \in 1..Len(todos) :
                  /\ todos[i].owner = CurrentUser \/ todos[i].allocated_to = CurrentUser
                  /\ todos[i].reference_type # ToDo
                  /\ Truthy(todos[i].reference_type) /\ Truthy(todos[i].reference_name)
                  /\ e.key = RefKey(todos[i].reference_type, todos[i].reference_name)
        /\ \A ref \in Requested :
              ~CarriedByOwnTask(ref.doctype, ref.name) =>
                  RefKey(ref.doctype, ref.name) \notin ResolvedKeys

\* C5 witness: the reference of somebody else's task is requested with read
\* permission on its type and its record existing; it is left out, while a
\* reference of the caller's own task is resolved
C5_Witness ==
    /\ ResolveCall
    /\ \E r1, r2 \in Requested :
          /\ ~CarriedByOwnTask(r1.doctype, r1.name)
          /\ \E i \in 1..Len(todos) :
                todos[i].reference_type = r1.doctype /\ todos[i].reference_name = r1.name
          /\ RecordExists(r1.doctype, r1.name)
          /\ LookupOf(r1.doctype) = "ok"
          /\ RefKey(r1.doctype, r1.name) \notin ResolvedKeys
          /\ CarriedByOwnTask(r2.doctype, r2.name)
          /\ RefKey(r2.doctype, r2.name) \in ResolvedKeys

\* C6: for a type with no configured display field, every value that
\* resolve_references and resolve_single_reference return for a reference
\* (a type and an id that is a text) equals the raw id.
C6_NoTitleFieldGivesRawId ==
    /\ ResolveCall =>
          \A ref \in Requested : \A e \in refcall.resolved :
              (MetaTitleField(ref.doctype) = <<>> /\ e.key = RefKey(ref.doctype, ref.name)) =>
                  e.value = ref.name
    /\ (SingleCall /\ Truthy(refcall.doctype) /\ refcall.name # None
          /\ MetaTitleField(refcall.doctype) = <<>>) =>
          refcall.value = refcall.name

\* C6 witness: an existing Note, whose column "t" holds a text, resolved
\* to its id, by the batch and by the single lookup
C6_Witness ==
    /\ RecordExists(Note, <<"1">>)
    /\ LookupOf(Note) = "ok"
    /\ \/ ResolveCall /\ [key |-> RefKey(Note, <<"1">>), value |-> <<"1">>] \in refcall.resolved
       \/ SingleCall /\ refcall.doctype = Note /\ refcall.name = <<"1">>
                     /\ refcall.value = <<"1">>

\* C7: a resolved display string is never empty or whitespace-only for a
\* non-empty id: the value of a record whose display field is blank, also
\* one that holds only whitespace, is the raw id.
C7_DisplayNeverBlank ==
    /\ ResolveCall => \A e \in refcall.resolved : ~Blank(e.value)
    /\ (SingleCall /\ Truthy(refcall.doctype) /\ Truthy(refcall.name)) => ~Blank(refcall.value)

TitleOf(doctype, name) == (CHOOSE d \in docs : d.doctype = doctype /\ d.name = name).title

SingleCallOfReference == SingleCall /\ Truthy(refcall.doctype) /\ Truthy(refcall.name)

LimitEach == 50

\* todos[:100]
LimitTotal == 100

\* .limit(100) and LIMIT 100 of get_user_todos_alternative
LimitAlternative == 100

ModifiedLater(r1, r2) == r1.modified > r2.modified

\* rows in descending order of modified; rows with equal modified keep
\* their order, or take the reverse of it when tieRev
SortByModifiedDesc(rows, tieRev) ==
    SortSeq(IF tieRev THEN Reverse(rows) ELSE rows, ModifiedLater)

FirstRows(rows, limit) == SubSeq(rows, 1, IF Len(rows) < limit THEN Len(rows) ELSE limit)

\* frappe.db.get_list("ToDo", filters={"reference_type": ["!=", "ToDo"],
\* field: current_user}, order_by="modified desc", limit=limit); tieRev is
\* the order the database gives to rows with equal modified
GetListTodos(field, limit, tieRev) ==
    FirstRows(
        SortByModifiedDesc(
            SelectSeq(todos, LAMBDA t : t.reference_type # ToDo /\ t[field] = CurrentUser),
            tieRev),
        limit)

\* a merge that keeps both copies of a task
MergeKeepingDuplicates(rows) == rows

\* The content todo_dict holds for the name of rows[i]: that of the last
\* row of the name
LastOfName(rows, i) ==
    rows[CHOOSE j \in i..Len(rows) :
            /\ rows[j].name = rows[i].name
            /\ \A k \in (j + 1)..Len(rows) : rows[k].name # rows[i].name]

\* todo_dict[todo.name] = todo for every row, then list(todo_dict.values()):
\* one row per name, at the place of the name's first row, with the
\* content of its last
MergeByName(rows) ==
    LET indexed == [i \in 1..Len(rows) |-> [i |-> i, name |-> rows[i].name]]
        firsts == SelectSeq(indexed, LAMBDA e :
                      \A j \in 1..(e.i - 1) : rows[j].name # e.name)
    IN [r \in 1..Len(firsts) |-> LastOfName(rows, firsts[r].i)]

\* get_user_todos()
get_user_todos(tieRev) ==
    LET owned_todos == GetListTodos("owner", LimitEach, tieRev)
        assigned_todos == GetListTodos("allocated_to", LimitEach, tieRev)
        merged == MergeByName(owned_todos \o assigned_todos)
    IN FirstRows(SortByModifiedDesc(merged, FALSE), LimitTotal)

\* get_user_todos_alternative(): the query of the query builder, and of
\* the SQL it falls back to
get_user_todos_alternative(tieRev) ==
    FirstRows(
        SortByModifiedDesc(
            SelectSeq(todos, LAMBDA t :
                /\ t.reference_type # ToDo
                /\ t.owner = CurrentUser \/ t.allocated_to = CurrentUser),
            tieRev),
        LimitAlternative)

NoResult == [called |-> FALSE, path |-> "", rows |-> <<>>]

Result(path, rows) == [called |-> TRUE, path |-> path, rows |-> rows]

GetUserTodos ==
    /\ ~listing.main.called
    /\ listing' = [listing EXCEPT !.main = Result("get_list", get_user_todos(listing.tieRev))]
    /\ UNCHANGED <<versions, comments, now, history, todos, docs, refcall, context>>

\* The query builder answers, or raises and the SQL is run instead
GetUserTodosAlternative ==
    /\ ~listing.alt.called
    /\ \E path \in {"query_builder", "sql"} :
          listing' = [listing EXCEPT
                        !.alt = Result(path, get_user_todos_alternative(listing.tieRev))]
    /\ UNCHANGED <<versions, comments, now, history, todos, docs, refcall, context>>

\* The numbers of tasks of one kind in a store: a few, or more than one
\* query returns
TaskCounts == (0..MaxFew) \cup ((LimitEach + 1)..(LimitEach + MaxOver))

\* How the modified timestamps follow the order of insertion
ModifiedPatterns == {"rising", "falling", "paired", "equal"}

ModifiedOf(pattern, i, n) ==
    CASE pattern = "rising" -> i
      [] pattern = "falling" -> n + 1 - i
      [] pattern = "paired" -> (i + 1) \div 2
      [] OTHER -> 1

\* A ToDo table of nO tasks the caller owns, nA assigned to the caller, nB
\* both, nS owned and about another task, nF of somebody else
ListingTable(nO, nA, nB, nS, nF, pattern) ==
    LET n == nO + nA + nB + nS + nF IN
    [i \in 1..n |->
        TodoRow(i,
                IF i <= nO \/ (i > nO + nA /\ i <= nO + nA + nB + nS) THEN "alice" ELSE "bob",
                IF i > nO /\ i <= nO + nA + nB THEN "alice" ELSE "bob",
                IF i > nO + nA + nB /\ i <= nO + nA + nB + nS THEN ToDo ELSE Project,
                <<"1">>,
                ModifiedOf(pattern, i, n))]

InitTodos ==
    /\ versions = <<>> /\ comments = <<>> /\ now = 1 /\ history = NoCall
    /\ docs = {} /\ refcall = NoRefCall
    /\ \E nO \in TaskCounts, nA \in TaskCounts, nB \in TaskCounts, nS \in {0, 1}, nF \in {0, 1},
          pattern \in ModifiedPatterns :
          todos = ListingTable(nO, nA, nB, nS, nF, pattern)
    /\ listing \in [main : {NoResult}, alt : {NoResult}, tieRev : BOOLEAN]
    /\ context = [op |-> "none"]

NextTodos ==
    \/ GetUserTodos
    \/ GetUserTodosAlternative

SpecTodos == InitTodos /\ [][NextTodos]_vars

(***************************************************************************)
(* Properties of the task listing                                          *)
(***************************************************************************)

Names(rows) == [i \in 1..Len(rows) |-> rows[i].name]

\* C9: the list get_user_todos returns has at most 100 items, holds no
\* task whose reference type is the task type, and no two items with the
\* same identifier, also when a task is both owned by and assigned to the
\* caller.
C9_ListingBoundedDistinct ==
    listing.main.called =>
        LET rows == listing.main.rows IN
        /\ Len(rows) <= 100
        /\ \A i \in 1..Len(rows) : rows[i].reference_type # ToDo
        /\ \A i, j \in 1..Len(rows) : rows[i].name = rows[j].name => i = j

\* C9 witness: both queries return their 50 rows, the store holds a task
\* about a task, and a task the caller both owns and is assigned to is in
\* the list
C9_Witness ==
    /\ listing.main.called
    /\ Len(listing.main.rows) > LimitEach
    /\ \E i \in 1..Len(todos) : todos[i].reference_type = ToDo /\ todos[i].owner = CurrentUser
    /\ \E i \in 1..Len(listing.main.rows) :
          /\ listing.main.rows[i].owner = CurrentUser
          /\ listing.main.rows[i].allocated_to = CurrentUser
    /\ Cardinality({ i \in 1..Len(todos) :
                       todos[i].owner = CurrentUser /\ todos[i].reference_type # ToDo }) > LimitEach
    /\ Cardinality({ i \in 1..Len(todos) :
                       todos[i].allocated_to = CurrentUser /\ todos[i].reference_type # ToDo }) > LimitEach

DistinctModified == \A i, j \in 1..Len(todos) : todos[i].modified = todos[j].modified => i = j

\* C10: get_user_todos_alternative is equivalent to get_user_todos: called
\* on the same store, the two return the same task identifiers, and in the
\* same order wherever the timestamps decide the order.
C10_AlternativeEquivalent ==
    (listing.main.called /\ listing.alt.called) =>
        LET main == Names(listing.main.rows)
            alt == Names(listing.alt.rows)
        IN /\ { main[i] : i \in 1..Len(main) } = { alt[i] : i \in 1..Len(alt) }
           /\ DistinctModified => main = alt

(***************************************************************************)
(* The diff of a change-log record (activity.py 94-144)                    *)
(***************************************************************************)

\* The entries found in a "changed" list: [field, old, new] for the assignee
\* and for the status, a two-element entry, entries whose first element is
\* the number 7, an entry that is an object, an entry that is a number
DiffChanges ==
    { Change("seq", 3, "allocated_to", TRUE),
      Change("seq", 3, "status", TRUE),
      Change("seq", 2, "allocated_to", TRUE),
      Change("seq", 1, "7", FALSE),
      Change("seq", 3, "7", FALSE),
      Change("map", 3, "", TRUE),
      Change("atom", 0, "", TRUE) }

DiffEntries == UNION { [1..n -> DiffChanges] : n \in 1..MaxEntries }

\* The payloads of the record under study: objects with every combination
\* of changed, added and removed, and the values that are no object
DiffData ==
    { ObjData("list", e, a, r) : e \in DiffEntries, a \in BOOLEAN, r \in BOOLEAN }
    \cup { ObjData(c, <<>>, a, r) : c \in {"absent", "other"}, a \in BOOLEAN, r \in BOOLEAN }
    \cup { ObjData("dict", <<Change("seq", 1, "allocated_to", TRUE)>>, a, r) :
             a \in BOOLEAN, r \in BOOLEAN }
    \cup { Data("invalid", {}, "absent", <<>>, FALSE, FALSE),
           Data("atom", {}, "absent", <<>>, FALSE, FALSE),
           Data("arr", {}, "absent", <<>>, FALSE, FALSE),
           Data("str", {"changed"}, "absent", <<>>, FALSE, FALSE) }

\* A Version table of task T1: the record under study, alone or followed by
\* a later record of a plain status change
DiffTables ==
    { <<[name |-> [tbl |-> "Version", n |-> 1], owner |-> "bob", creation |-> Times[1],
         docname |-> "T1", data |-> d]>>
      \o (IF second
          THEN <<[name |-> [tbl |-> "Version", n |-> 2], owner |-> "bob",
                  creation |-> Times[3], docname |-> "T1",
                  data |-> ObjData("list", <<Change("seq", 3, "status", TRUE)>>, FALSE, FALSE)]>>
          ELSE <<>>) :
      d \in DiffData, second \in BOOLEAN }

\* Reading the activity log of a task whose first change-log record holds
\* any of the payloads
InitDiff ==
    /\ versions \in DiffTables
    /\ comments \in { t \in CommentTables(1) : \A i \in 1..Len(t) : t[i].reference_name = "T1" }
    /\ now = Len(Times)
    /\ history = NoCall
    /\ RestIdle

NextDiff == ListHistory

SpecDiff == InitDiff /\ [][NextDiff]_vars

\* The payload is one of the malformed values: invalid JSON, a JSON value
\* that is no object, or a changed list with an entry that is no
\* [field, old, new] sequence or whose field name is no string
Malformed(data) ==
    \/ data.form \in {"invalid", "atom", "str", "arr"}
    \/ /\ data.form = "obj" /\ data.changed = "list"
       /\ \E i \in 1..Len(data.entries) :
             \/ data.entries[i].shape # "seq"
             \/ data.entries[i].len < 3
             \/ ~data.entries[i].isStr

\* C11: a malformed change-log payload is never fatal to list_history: the
\* call returns normally, and the list holds the items of exactly the
\* well-formed change-log records and of every comment of the task.
C11_MalformedNeverFatal ==
    ValidListCall =>
        /\ history.error = ""
        /\ ItemIds(history.items) =
              { versions[i].name : i \in { j \in VersionsOf(history.todo_id) :
                                              ~Malformed(versions[j].data) } }
              \cup { comments[i].name : i \in CommentsOf(history.todo_id) }

\* The changed part of the diff is a list with an entry of at least three
\* elements [field, old, new] for the assignee field
ChangesAssigneeInFull(data) ==
    /\ data.form = "obj" /\ data.changed = "list"
    /\ \E i \in 1..Len(data.entries) :
          /\ data.entries[i].shape = "seq" /\ data.entries[i].len >= 3
          /\ data.entries[i].isStr /\ data.entries[i].field = "allocated_to"

VersionItemsReturned ==
    { i \in 1..Len(history.items) : ListReturned /\ history.items[i].id.tbl = "Version" }

\* C12 as stated: a change-log item is an "assignment" if the changed list
\* of its diff has a change of the assignee field and a "status_change"
\* otherwise, whatever the added and removed parts of the diff.
C12_Original ==
    \A i \in VersionItemsReturned :
        history.items[i].type =
            IF ChangesAssigneeInFull(RecordOf(history.items[i].id).data)
            THEN "assignment" ELSE "status_change"

\* C12 amended: a change-log item is an "assignment" exactly when the diff
\* has no added part and its changed list has an entry of at least three
\* elements for the assignee field; it is a "status_change" otherwise, in
\* particular for every diff with an added part (a created document).
C12_AssignmentUnlessCreated ==
    \A i \in VersionItemsReturned :
        LET data == RecordOf(history.items[i].id).data IN
        history.items[i].type =
            IF ChangesAssigneeInFull(data) /\ ~data.added
            THEN "assignment" ELSE "status_change"

\* C12 witness: an item returned as a status change for a diff that has an
\* added part and a full change of the assignee, next to the item of the
\* later record
C12_Witness ==
    /\ ListReturned
    /\ Len(history.items) >= 2
    /\ \E i \in VersionItemsReturned :
          LET data == RecordOf(history.items[i].id).data IN
          /\ ChangesAssigneeInFull(data) /\ data.added /\ data.removed
          /\ history.items[i].type = "status_change"
          /\ history.items[i].content = <<"ToDo created">>

(***************************************************************************)
(* The page context of the application shell (www/workz/index.py)          *)
(***************************************************************************)

\* the text s has pat at position i
StartsWithAt(s, i, pat) ==
    /\ i + Len(pat) - 1 <= Len(s)
    /\ SubSeq(s, i, i + Len(pat) - 1) = pat

Contains(s, pat) == \E i \in 1..Len(s) : StartsWithAt(s, i, pat)

OpenTag == <<"<", "s", "c", "r", "i", "p", "t">>

CloseTag == <<"<", "/", "s", "c", "r", "i", "p", "t", ">">>

\* re.compile(r"\<script[^<]*\</script\>") matched at position i of s: the
\* position after the match, or 0.  [^<]* runs up to the next "<", where
\* the closing tag must stand.
SCRIPT_TAG_PATTERN(s, i) ==
    IF ~StartsWithAt(s, i, OpenTag) THEN 0
    ELSE LET from == i + Len(OpenTag)
             lts == { j \in from..Len(s) : s[j] = "<" }
             j == IF lts = {} THEN 0 ELSE CHOOSE k \in lts : \A l \in lts : k <= l
         IN IF j # 0 /\ StartsWithAt(s, j, CloseTag) THEN j + Len(CloseTag) ELSE 0

\* re.compile(r"</script\>") matched at position i of s
CLOSING_SCRIPT_TAG_PATTERN(s, i) ==
    IF StartsWithAt(s, i, CloseTag) THEN i + Len(CloseTag) ELSE 0

RECURSIVE Sub(_, _, _)
\* pattern.sub("", s) from position i on: one pass from left to right that
\* drops every match and resumes after it
Sub(pattern, s, i) ==
    IF i > Len(s) THEN <<>>
    ELSE LET e == IF pattern = "SCRIPT_TAG_PATTERN" THEN SCRIPT_TAG_PATTERN(s, i)
                  ELSE CLOSING_SCRIPT_TAG_PATTERN(s, i)
         IN IF e # 0 THEN Sub(pattern, s, e) ELSE <<s[i]>> \o Sub(pattern, s, i + 1)

RECURSIVE JsonEscape(_)
\* the body of a JSON string literal: quote and backslash are escaped
JsonEscape(s) ==
    IF s = <<>> THEN <<>>
    ELSE (IF Head(s) \in {"\"", "\\"} THEN <<"\\", Head(s)>> ELSE <<Head(s)>>)
         \o JsonEscape(Tail(s))

\* json.dumps(text)
json_dumps(text) == <<"\"">> \o JsonEscape(text) \o <<"\"">>

\* frappe.as_json(boot, indent=None, separators=(",", ":")) of a boot
\* payload that holds the string value under one key
as_json(value) == <<"{">> \o json_dumps(<<"k">>) \o <<":">> \o json_dumps(value) \o <<"}">>

\* The fragments the strings of a boot payload are made of
Fragments ==
    { <<"<", "s", "c", "r", "i", "p", "t", ">">>,
      CloseTag,
      <<"<", "/", "s", "c", "r">>,
      <<"<", "s", "c", "r">>,
      <<"i", "p", "t", ">">>,
      <<"a">>,
      <<"\"">> }

RECURSIVE Flatten(_)
Flatten(pieces) == IF pieces = <<>> THEN <<>> ELSE Head(pieces) \o Flatten(Tail(pieces))

BootValues == { Flatten(ps) : ps \in UNION { [1..n -> Fragments] : n \in 0..MaxPieces } }

\* get_context(context), called with the fresh context of a page request:
\* fails is the step of the try block that raises, if any ("session": the
\* user is Guest or frappe.sessions.get() fails; "identity": a call after
\* context.update fails)
GetContext ==
    \E user \in {"Guest", CurrentUser}, value \in BootValues,
       fails \in {"none", "session", "identity"} :
        /\ context.op = "none"
        /\ user = "Guest" => fails = "session"
        /\ IF fails = "session"
           THEN context' = [op |-> "get_context", user |-> user,
                            error |-> "AuthenticationError", attached |-> FALSE,
                            value |-> <<>>, boot_json |-> <<>>, boot |-> <<>>]
           ELSE LET serialized == as_json(value)
                    boot_json == Sub("CLOSING_SCRIPT_TAG_PATTERN",
                                     Sub("SCRIPT_TAG_PATTERN", serialized, 1), 1)
                IN context' = [op |-> "get_context", user |-> user,
                               error |-> IF fails = "identity"
                                         THEN "AuthenticationError" ELSE "",
                               attached |-> TRUE, value |-> value,
                               boot_json |-> boot_json, boot |-> json_dumps(boot_json)]
        /\ UNCHANGED <<versions, comments, now, history, todos, docs, refcall, listing>>

InitBoot ==
    /\ versions = <<>> /\ comments = <<>> /\ now = 1 /\ history = NoCall
    /\ RestIdle

\* The page is rendered or the error reported; the next request gets a
\* fresh context
ContextRespond ==
    /\ context.op # "none"
    /\ context' = [op |-> "none"]
    /\ UNCHANGED <<versions, comments, now, history, todos, docs, refcall, listing>>

NextBoot ==
    \/ GetContext
    \/ ContextRespond

SpecBoot == InitBoot /\ [][NextBoot]_vars

\* C13: the boot string that get_context attaches to the page context holds
\* no closing script tag: neither the stripped text before the final JSON
\* string-literal encoding nor the encoded string contains "</script>".
C13_NoClosingScriptTag ==
    (context.op = "get_context" /\ context.attached) =>
        /\ ~Contains(context.boot_json, CloseTag)
        /\ ~Contains(context.boot, CloseTag)

(***************************************************************************)
(* The stored comments over a sequence of calls (activity.py 67-213)       *)
(***************************************************************************)

\* C14: over any sequence of list_history and add_comment calls the stored
\* records change only through a successful add_comment: a failing call
\* (missing todo_id, blank content, no read permission) stores nothing, a
\* successful call appends exactly one comment, tied to the given todo_id,
\* and list_history changes neither the comments nor the change-log.
C14_CommentsChangeOnlyByAddComment ==
    [][ /\ versions' = versions
        /\ comments' # comments =>
              /\ history'.op = "add_comment" /\ history'.error = ""
              /\ history'.todo_id # "" /\ ~Blank(history'.content) /\ history'.permitted
              /\ Len(comments') = Len(comments) + 1
              /\ SubSeq(comments', 1, Len(comments)) = comments
              /\ comments'[Len(comments')].reference_name = history'.todo_id
              /\ comments'[Len(comments')].name = history'.items[1].id
        /\ (history' # history /\ history'.op = "add_comment") =>
              IF history'.todo_id = "" \/ Blank(history'.content) \/ ~history'.permitted
              THEN history'.error # "" /\ comments' = comments
              ELSE history'.error = "" /\ Len(comments') = Len(comments) + 1
        /\ history'.op = "list_history" => comments' = comments
      ]_vars

\* C14 witness: a successful add_comment has stored its comment, the only
\* one of the store, under the task it was called for, and the other task
\* has none
C14_Witness ==
    /\ history.op = "add_comment" /\ history.error = ""
    /\ Len(comments) = 1
    /\ comments[1].reference_name = history.todo_id
    /\ comments[1].name = history.items[1].id
    /\ \E other \in TodoIds \ {history.todo_id} : CommentsOf(other) = {}

====
